---- MODULE Spec2Model ----
(***************************************************************************)
(* json2ddl: inference of a SQL schema from JSON records.                  *)
(*                                                                         *)
(* Python strings are sequences of one-character strings, so that          *)
(* strip(), the regular expressions, Decimal() and to_pascal() are         *)
(* computed character by character.  A Python value is a record            *)
(*   [t, s, n, items]                                                      *)
(* t: "null" | "bool" | "int" | "float" | "str" | "list" | "dict"          *)
(* s: the characters of a str, or str(v) of a native float                 *)
(* n: the value of an int, 1/0 of a bool                                   *)
(* items: the elements of a list, the <<key, value>> pairs of a dict       *)
(***************************************************************************)
EXTENDS Integers, Sequences, FiniteSets, TLC

VARIABLES
    values,       \* infer_sql_type: the column's values
    result,       \* infer_sql_type: the returned type, or the exception
    ipc,          \* infer_sql_type: "idle" | "call" | "done"
    data,         \* process_table: the records the top-level call was given
    stack,        \* process_table: the frames of the recursion, top last
    schemas,      \* process_table: the shared OrderedDict, table name -> col_defs
    status,       \* process_table: "idle" | "start" | "running" | "returned" | "raised"
    pascal,       \* configuration
    nerd,
    rename_map,
    sort,
    pk_source,
    cushion_arg

vars == <<values, result, ipc, data, stack, schemas, status,
          pascal, nerd, rename_map, sort, pk_source, cushion_arg>>

----------------------------------------------------------------------------
(* Bounds *)

MaxVals == 2
MaxRows == 2

----------------------------------------------------------------------------
(* Characters *)

DigitSeq == <<"0", "1", "2", "3", "4", "5", "6", "7", "8", "9">>
UpperSeq == <<"A", "B", "C", "D", "E", "F", "G", "H", "I", "J", "K", "L", "M",
              "N", "O", "P", "Q", "R", "S", "T", "U", "V", "W", "X", "Y", "Z">>
LowerSeq == <<"a", "b", "c", "d", "e", "f", "g", "h", "i", "j", "k", "l", "m",
              "n", "o", "p", "q", "r", "s", "t", "u", "v", "w", "x", "y", "z">>

\* The characters the model uses, in code-point order.
AsciiSeq == <<"\t", "\n", " ", "\"", "%", "+", "-", ".", "/">> \o DigitSeq
            \o <<":">> \o UpperSeq \o <<"_">> \o LowerSeq

IndexOf(seq, c) == CHOOSE i \in 1..Len(seq) : seq[i] = c

IsIn(seq, c) == \E i \in 1..Len(seq) : seq[i] = c

IsDigit(c) == IsIn(DigitSeq, c)
IsUpper(c) == IsIn(UpperSeq, c)
IsLower(c) == IsIn(LowerSeq, c)
IsAlnum(c) == IsDigit(c) \/ IsUpper(c) \/ IsLower(c)
IsSpace(c) == c \in {" ", "\t", "\n"}

DigitVal(c) == IndexOf(DigitSeq, c) - 1
Ord(c) == IndexOf(AsciiSeq, c)
UpperChar(c) == IF IsLower(c) THEN UpperSeq[IndexOf(LowerSeq, c)] ELSE c
LowerChar(c) == IF IsUpper(c) THEN LowerSeq[IndexOf(UpperSeq, c)] ELSE c

----------------------------------------------------------------------------
(* Strings *)

Upper(s) == [i \in 1..Len(s) |-> UpperChar(s[i])]
Lower(s) == [i \in 1..Len(s) |-> LowerChar(s[i])]

Max(a, b) == IF a >= b THEN a ELSE b
Min(a, b) == IF a <= b THEN a ELSE b

RECURSIVE LStrip(_)
LStrip(s) == IF s # <<>> /\ IsSpace(s[1]) THEN LStrip(Tail(s)) ELSE s

RECURSIVE RStrip(_)
RStrip(s) ==
    IF s # <<>> /\ IsSpace(s[Len(s)]) THEN RStrip(SubSeq(s, 1, Len(s) - 1)) ELSE s

\* str.strip()
Strip(s) == RStrip(LStrip(s))

\* p in s, for strings
Contains(s, p) ==
    \E i \in 1..(Len(s) - Len(p) + 1) : SubSeq(s, i, i + Len(p) - 1) = p

\* s.endswith(p)
EndsWith(s, p) ==
    Len(s) >= Len(p) /\ SubSeq(s, Len(s) - Len(p) + 1, Len(s)) = p

\* s.rstrip(c)
RECURSIVE RStripChar(_, _)
RStripChar(s, c) ==
    IF s # <<>> /\ s[Len(s)] = c THEN RStripChar(SubSeq(s, 1, Len(s) - 1), c) ELSE s

\* s.replace('"', '""')
RECURSIVE EscapeQuotes(_)
EscapeQuotes(s) ==
    IF s = <<>> THEN <<>>
    ELSE (IF s[1] = "\"" THEN <<"\"", "\"">> ELSE <<s[1]>>) \o EscapeQuotes(Tail(s))

\* s < t in Python's ordering of strings (by code point, a prefix first)
RECURSIVE StrLess(_, _)
StrLess(s, t) ==
    IF t = <<>> THEN FALSE
    ELSE IF s = <<>> THEN TRUE
    ELSE IF s[1] # t[1] THEN Ord(s[1]) < Ord(t[1])
    ELSE StrLess(Tail(s), Tail(t))

AllDigits(s) == \A i \in 1..Len(s) : IsDigit(s[i])

\* The value of a string of digits
RECURSIVE DigitsValue(_)
DigitsValue(s) ==
    IF s = <<>> THEN 0
    ELSE 10 * DigitsValue(SubSeq(s, 1, Len(s) - 1)) + DigitVal(s[Len(s)])

\* The count of decimal digits of n >= 0 (1 for 0)
RECURSIVE NumDigits(_)
NumDigits(n) == IF n < 10 THEN 1 ELSE 1 + NumDigits(n \div 10)

RECURSIVE StripLeadingZeros(_)
StripLeadingZeros(s) ==
    IF Len(s) > 1 /\ s[1] = "0" THEN StripLeadingZeros(Tail(s)) ELSE s

Unsigned(s) == IF s # <<>> /\ s[1] \in {"+", "-"} THEN Tail(s) ELSE s

----------------------------------------------------------------------------
(* Python values *)

PyNone == [t |-> "null", s |-> <<>>, n |-> 0, items |-> <<>>]
PyBool(b) == [t |-> "bool", s |-> <<>>, n |-> IF b THEN 1 ELSE 0, items |-> <<>>]
PyInt(i) == [t |-> "int", s |-> <<>>, n |-> i, items |-> <<>>]
\* a native float, kept as the characters of str(v)
PyFloat(r) == [t |-> "float", s |-> r, n |-> 0, items |-> <<>>]
PyStr(c) == [t |-> "str", s |-> c, n |-> 0, items |-> <<>>]
PyList(xs) == [t |-> "list", s |-> <<>>, n |-> 0, items |-> xs]
\* a dict: ps is the sequence of its <<key, value>> pairs, in insertion order
PyDict(ps) == [t |-> "dict", s |-> <<>>, n |-> 0, items |-> ps]

RECURSIVE SumSeq(_)
SumSeq(ns) == IF ns = <<>> THEN 0 ELSE ns[1] + SumSeq(Tail(ns))

\* len(str(v)); the strings inside a list or dict hold no quote or escape
RECURSIVE StrLen(_)
StrLen(v) ==
    CASE v.t = "null" -> 4
      [] v.t = "bool" -> IF v.n = 1 THEN 4 ELSE 5
      [] v.t = "int" -> IF v.n < 0 THEN 1 + NumDigits(-v.n) ELSE NumDigits(v.n)
      [] v.t = "float" -> Len(v.s)
      [] v.t = "str" -> Len(v.s)
      [] v.t = "list" ->
            2 + SumSeq([i \in 1..Len(v.items) |->
                          (IF v.items[i].t = "str" THEN 2 ELSE 0) + StrLen(v.items[i])])
              + 2 * Max(Len(v.items) - 1, 0)
      [] v.t = "dict" ->
            2 + SumSeq([i \in 1..Len(v.items) |->
                          Len(v.items[i][1]) + 4
                          + (IF v.items[i][2].t = "str" THEN 2 ELSE 0)
                          + StrLen(v.items[i][2])])
              + 2 * Max(Len(v.items) - 1, 0)

----------------------------------------------------------------------------
(* The classification of one string: lines 82-112 *)

\* re.fullmatch(r"\d+", b)
IsDigitString(b) == b # <<>> /\ AllDigits(b)

\* re.fullmatch(r"[+-]?\d+", s)
IsIntString(s) == IsDigitString(Unsigned(s))

\* re.fullmatch(r"\d+\.\d*|\.\d+", b)
IsPointString(b) ==
    /\ Cardinality({i \in 1..Len(b) : b[i] = "."}) = 1
    /\ Len(b) >= 2
    /\ \A i \in 1..Len(b) : b[i] = "." \/ IsDigit(b[i])

\* re.fullmatch(r"[+-]?(?:\d+\.\d*|\.\d+)", s)
IsFloatString(s) == IsPointString(Unsigned(s))

\* s.lower() in ("true", "false", "yes", "no")
IsBoolString(s) ==
    Lower(s) \in {<<"t", "r", "u", "e">>, <<"f", "a", "l", "s", "e">>, <<"y", "e", "s">>, <<"n", "o">>}

\* re.search(r"\d{1,2}:\d{2}(:\d{2})?", s)
HasTimeOfDay(s) ==
    \E i \in 1..(Len(s) - 3) :
        IsDigit(s[i]) /\ s[i + 1] = ":" /\ IsDigit(s[i + 2]) /\ IsDigit(s[i + 3])

\* s is a number of len digits in lo..hi
IsNumberIn(s, len, lo, hi) ==
    Len(s) = len /\ AllDigits(s) /\ DigitsValue(s) >= lo /\ DigitsValue(s) <= hi

\* H:MM or HH:MM
IsClock(s) ==
    \/ /\ Len(s) = 4 /\ s[2] = ":"
       /\ IsNumberIn(SubSeq(s, 1, 1), 1, 0, 9) /\ IsNumberIn(SubSeq(s, 3, 4), 2, 0, 59)
    \/ /\ Len(s) = 5 /\ s[3] = ":"
       /\ IsNumberIn(SubSeq(s, 1, 2), 2, 0, 23) /\ IsNumberIn(SubSeq(s, 4, 5), 2, 0, 59)

\* YYYY-MM-DD
IsIsoDate(s) ==
    /\ Len(s) = 10 /\ s[5] = "-" /\ s[8] = "-"
    /\ IsNumberIn(SubSeq(s, 1, 4), 4, 1, 9999)
    /\ IsNumberIn(SubSeq(s, 6, 7), 2, 1, 12)
    /\ IsNumberIn(SubSeq(s, 9, 10), 2, 1, 28)

\* M/D
IsMonthDay(s) ==
    /\ Len(s) = 3 /\ s[2] = "/"
    /\ IsNumberIn(SubSeq(s, 1, 1), 1, 1, 9) /\ IsNumberIn(SubSeq(s, 3, 3), 1, 1, 9)

\* line 103: dateutil's parse(s, fuzzy=False) returns, rather than raising
\* ParserError, ValueError or OverflowError.  The library is no part of the
\* repository; this is its behaviour on the shapes the sample values have:
\* YYYY-MM-DD, YYYY-MM-DD HH:MM, M/D, H:MM and HH:MM are dates, words of
\* letters that are no month, weekday or time zone are refused.
parse_date(s) ==
    \/ IsIsoDate(s)
    \/ IsMonthDay(s)
    \/ IsClock(s)
    \/ /\ Len(s) = 16 /\ s[11] = " "
       /\ IsIsoDate(SubSeq(s, 1, 10)) /\ IsClock(SubSeq(s, 12, 16))

----------------------------------------------------------------------------
(* decimal.Decimal(s).as_tuple(): lines 68-70, 89-91 *)

\* s up to its first c (all of s without one), and what follows that c
Before(s, c) == IF IsIn(s, c) THEN SubSeq(s, 1, IndexOf(s, c) - 1) ELSE s
After(s, c) == IF IsIn(s, c) THEN SubSeq(s, IndexOf(s, c) + 1, Len(s)) ELSE <<>>

\* int(s) of an optionally signed string of digits
SignedValue(s) ==
    IF s # <<>> /\ s[1] = "-" THEN -DigitsValue(Tail(s)) ELSE DigitsValue(Unsigned(s))

\* The tuple: [invalid: Decimal(s) raises InvalidOperation,
\*             special: NaN or Infinity, whose exponent is the string 'n' or 'F',
\*             ndigits: len(digits), exponent]
DecTuple(inv, spc, nd, ex) ==
    [invalid |-> inv, special |-> spc, ndigits |-> nd, exponent |-> ex]

\* of the integer part ip, the fraction fp and the exponent ex
DecimalOfParts(ip, fp, ex) ==
    IF IsDigitString(ip \o fp) /\ IsIntString(ex)
    THEN DecTuple(FALSE, FALSE, Len(StripLeadingZeros(ip \o fp)), SignedValue(ex) - Len(fp))
    ELSE DecTuple(TRUE, FALSE, 0, 0)

\* of the mantissa and the exponent
DecimalOfMantissa(mant, ex) == DecimalOfParts(Before(mant, "."), After(mant, "."), ex)

\* of a lower-case string without sign
DecimalOfUnsigned(u) ==
    IF u = <<"n", "a", "n">> THEN DecTuple(FALSE, TRUE, 0, 0)
    ELSE IF u \in {<<"i", "n", "f">>, <<"i", "n", "f", "i", "n", "i", "t", "y">>} THEN DecTuple(FALSE, TRUE, 1, 0)
    ELSE DecimalOfMantissa(Before(u, "e"), IF IsIn(u, "e") THEN After(u, "e") ELSE <<"0">>)

DecimalTuple(s) == DecimalOfUnsigned(Lower(Unsigned(s)))

----------------------------------------------------------------------------
(* infer_sql_type: lines 54-158 *)

\* A SQL type, and any other word of a column definition: [kind, a, b].
\* VARCHAR(a), DECIMAL(a,b); a = b = 0 for the others.
Word(k) == [kind |-> k, a |-> 0, b |-> 0]
Varchar(n) == [kind |-> "VARCHAR", a |-> n, b |-> 0]
DecimalType(p, sc) == [kind |-> "DECIMAL", a |-> p, b |-> sc]
\* the call raised instead of returning
IsRaised(r) == r.kind = "TypeError"

\* lines 55-57; min_len = -1 stands for None
Flags0 ==
    [has_int |-> FALSE, has_float |-> FALSE, has_date |-> FALSE,
     has_datetime |-> FALSE, has_str |-> FALSE, has_bool |-> FALSE,
     min_len |-> -1, max_len |-> 0, max_prec |-> 0, max_scale |-> 0,
     raised |-> FALSE]

\* lines 66-74 and 87-95: a float-like value whose Decimal tuple is d
FloatMetrics(f, d) ==
    IF d.invalid THEN [f EXCEPT !.has_float = TRUE]
    \* -d.as_tuple().exponent of NaN or Infinity: a TypeError, which is not caught
    ELSE IF d.special THEN [f EXCEPT !.has_float = TRUE, !.raised = TRUE]
    ELSE [f EXCEPT !.has_float = TRUE,
                   !.max_prec = Max(f.max_prec, d.ndigits),
                   !.max_scale = Max(f.max_scale, Max(-d.exponent, 0))]

\* lines 114-116 and 120-123
StringMetrics(f, length) ==
    [f EXCEPT !.has_str = TRUE,
              !.max_len = Max(f.max_len, length),
              !.min_len = IF f.min_len = -1 THEN length ELSE Min(f.min_len, length)]

\* lines 78-117: a str whose strip() is s
ClassifyString(f, s) ==
    IF s = <<>> THEN f
    ELSE IF IsIntString(s) THEN [f EXCEPT !.has_int = TRUE]
    ELSE IF IsFloatString(s) THEN FloatMetrics(f, DecimalTuple(s))
    ELSE IF IsBoolString(s) THEN [f EXCEPT !.has_bool = TRUE]
    ELSE IF parse_date(s)
    THEN (IF HasTimeOfDay(s) THEN [f EXCEPT !.has_datetime = TRUE]
          ELSE [f EXCEPT !.has_date = TRUE])
    ELSE StringMetrics(f, Len(s))

\* lines 59-123: one iteration of the loop over the values
Classify(f, v) ==
    CASE v.t = "bool" -> [f EXCEPT !.has_bool = TRUE]
      [] v.t = "int" -> [f EXCEPT !.has_int = TRUE]
      [] v.t = "float" -> FloatMetrics(f, DecimalTuple(v.s))
      [] v.t = "str" -> ClassifyString(f, Strip(v.s))
      [] OTHER -> StringMetrics(f, StrLen(v))

\* lines 58-123: the loop; an exception ends it
RECURSIVE Scan(_, _)
Scan(f, vs) ==
    IF vs = <<>> \/ f.raised THEN f ELSE Scan(Classify(f, vs[1]), Tail(vs))

\* int.bit_length()
RECURSIVE BitLength(_)
BitLength(n) ==
    IF n < 0 THEN BitLength(-n) ELSE IF n = 0 THEN 0 ELSE 1 + BitLength(n \div 2)

RECURSIVE Pow2(_)
Pow2(k) == IF k <= 0 THEN 1 ELSE 2 * Pow2(k - 1)

\* math.ceil(a / b) for b > 0
CeilDiv(a, b) == -((-a) \div b)

\* lines 140-143: float(body) / 100 of a string of digits, ValueError of any
\* other string.  The products orig * pct are exact for the lengths the
\* model reaches.
PercentCushion(orig, body) ==
    IF IsDigitString(body) THEN CeilDiv(orig * DigitsValue(body), 100)
    ELSE CeilDiv(orig, 10)

\* lines 138-148: int(arg) of an optionally signed string of digits,
\* ValueError of any other string
Cushion(orig, arg) ==
    IF EndsWith(arg, <<"%">>) THEN PercentCushion(orig, RStripChar(arg, "%"))
    ELSE IF IsIntString(arg) THEN SignedValue(arg)
    ELSE CeilDiv(orig, 10)

\* line 154
RoundUp(adjusted, block_size) == CeilDiv(adjusted, block_size) * block_size

\* lines 152-154
RoundToBlock(adjusted) ==
    RoundUp(adjusted, Pow2(Max(BitLength(adjusted) - 2, 0)))

\* VarcharLength without lines 149-150: the cushion kept for a column of
\* strings of one length
VarcharLengthKeepsCushion(max_len, min_len, nrd, arg) ==
    IF nrd THEN RoundToBlock(Max(1, max_len) + Cushion(Max(1, max_len), arg))
    ELSE Max(1, max_len)

\* lines 136-156: the length of the VARCHAR
VarcharLength(max_len, min_len, nrd, arg) ==
    IF ~nrd THEN Max(1, max_len)
    ELSE IF min_len # -1 /\ min_len = max_len THEN RoundToBlock(Max(1, max_len))
    ELSE RoundToBlock(Max(1, max_len) + Cushion(Max(1, max_len), arg))

\* lines 124-158
Resolve(f, nrd, arg) ==
    IF f.raised THEN Word("TypeError")
    ELSE IF f.has_datetime
            /\ ~(f.has_str \/ f.has_float \/ f.has_int \/ f.has_date \/ f.has_bool)
    THEN Word("DATETIME")
    ELSE IF f.has_date
            /\ ~(f.has_str \/ f.has_float \/ f.has_int \/ f.has_datetime \/ f.has_bool)
    THEN Word("DATE")
    ELSE IF f.has_bool
            /\ ~(f.has_str \/ f.has_float \/ f.has_int \/ f.has_date \/ f.has_datetime)
    THEN Word("BOOLEAN")
    ELSE IF f.has_float THEN DecimalType(Max(1, f.max_prec), f.max_scale)
    ELSE IF f.has_int
            /\ ~(f.has_float \/ f.has_str \/ f.has_date \/ f.has_datetime \/ f.has_bool)
    THEN Word("INTEGER")
    ELSE Varchar(VarcharLength(f.max_len, f.min_len, nrd, arg))

infer_sql_type(vs, nrd, arg) == Resolve(Scan(Flags0, vs), nrd, arg)

----------------------------------------------------------------------------
(* to_pascal: lines 38-51 *)

\* The length of the longest prefix of s made of capitals, small letters,
\* digits, letters and digits
RECURSIVE UpperRun(_)
UpperRun(s) == IF s # <<>> /\ IsUpper(s[1]) THEN 1 + UpperRun(Tail(s)) ELSE 0
RECURSIVE LowerRun(_)
LowerRun(s) == IF s # <<>> /\ IsLower(s[1]) THEN 1 + LowerRun(Tail(s)) ELSE 0
RECURSIVE DigitRun(_)
DigitRun(s) == IF s # <<>> /\ IsDigit(s[1]) THEN 1 + DigitRun(Tail(s)) ELSE 0
RECURSIVE AlnumRun(_)
AlnumRun(s) == IF s # <<>> /\ IsAlnum(s[1]) THEN 1 + AlnumRun(Tail(s)) ELSE 0

\* s cut after its first k characters (k >= 1): the piece, then what Rest
\* makes of the remainder
RECURSIVE SplitWords(_)
RECURSIVE FindTokens(_)
CutWord(s, k) == <<SubSeq(s, 1, k)>> \o SplitWords(SubSeq(s, k + 1, Len(s)))
CutToken(w, k) == <<SubSeq(w, 1, k)>> \o FindTokens(SubSeq(w, k + 1, Len(w)))

\* line 39: re.split(r"[^0-9a-zA-Z]+", s), without the empty words (line 43)
SplitWords(s) ==
    IF s = <<>> THEN <<>>
    ELSE IF ~IsAlnum(s[1]) THEN SplitWords(Tail(s))
    ELSE CutWord(s, AlnumRun(s))

\* line 41: the length of the match of
\*   [A-Z]{2,}(?=[A-Z][a-z]|[0-9]|$)|[A-Z]?[a-z]+|[A-Z]+|[0-9]+
\* at the start of r, a non-empty word of letters and digits that starts
\* with u capitals
TokenLengthAfter(r, u) ==
    IF u >= 2 /\ (u = Len(r) \/ IsDigit(r[u + 1])) THEN u
    ELSE IF u >= 3 /\ IsLower(r[u + 1]) THEN u - 1
    ELSE IF u = 1 /\ Len(r) >= 2 /\ IsLower(r[2]) THEN 1 + LowerRun(Tail(r))
    ELSE IF u = 0 /\ IsLower(r[1]) THEN LowerRun(r)
    ELSE IF u >= 1 THEN u
    ELSE DigitRun(r)

TokenLength(r) == TokenLengthAfter(r, UpperRun(r))

\* line 45: re.findall(pattern, w)
FindTokens(w) == IF w = <<>> THEN <<>> ELSE CutToken(w, TokenLength(w))

\* lines 47-50
cap_part(p) ==
    IF Len(p) = 2 THEN Upper(p)
    ELSE <<UpperChar(p[1])>> \o Lower(Tail(p))

RECURSIVE Flatten(_)
Flatten(ss) == IF ss = <<>> THEN <<>> ELSE ss[1] \o Flatten(Tail(ss))

\* lines 42-46
TokensOf(words) == Flatten([i \in 1..Len(words) |-> FindTokens(words[i])])
\* line 51
JoinCapitalised(tokens) == Flatten([i \in 1..Len(tokens) |-> cap_part(tokens[i])])

to_pascal(s) == JoinCapitalised(TokensOf(SplitWords(s)))

----------------------------------------------------------------------------
(* Ordered mappings: a dict, defaultdict(list) or OrderedDict is the sequence
   of its entries [k, vals] in insertion order *)

ODHas(d, key) == \E i \in 1..Len(d) : d[i].k = key
ODGet(d, key) == d[CHOOSE i \in 1..Len(d) : d[i].k = key].vals
ODKeys(d) == [i \in 1..Len(d) |-> d[i].k]

\* d[key].extend(xs) on a defaultdict(list)
ODExtend(d, key, xs) ==
    IF ODHas(d, key)
    THEN [i \in 1..Len(d) |-> IF d[i].k = key THEN [d[i] EXCEPT !.vals = @ \o xs]
                                ELSE d[i]]
    ELSE Append(d, [k |-> key, vals |-> xs])

\* d[key] = x
ODSet(d, key, x) ==
    IF ODHas(d, key)
    THEN [i \in 1..Len(d) |-> IF d[i].k = key THEN [d[i] EXCEPT !.vals = x] ELSE d[i]]
    ELSE Append(d, [k |-> key, vals |-> x])

\* A record (a JSON object) is the sequence of its <<key, value>> pairs.
RowHas(row, key) == \E i \in 1..Len(row) : row[i][1] = key
\* row.get(key, dflt)
RowGet(row, key, dflt) ==
    IF RowHas(row, key) THEN row[CHOOSE i \in 1..Len(row) : row[i][1] = key][2]
    ELSE dflt
\* row[key] = x
RowSet(row, key, x) ==
    IF RowHas(row, key)
    THEN [i \in 1..Len(row) |-> IF row[i][1] = key THEN <<key, x>> ELSE row[i]]
    ELSE Append(row, <<key, x>>)

----------------------------------------------------------------------------
(* process_table, the partition of the records: lines 183-200 *)

\* line 194
IsObjArray(v) ==
    /\ v.t = "list"
    /\ v.items # <<>>
    /\ \A i \in 1..Len(v.items) : v.items[i].t = "dict"
\* line 197
IsPrimArray(v) ==
    /\ v.t = "list"
    /\ v.items # <<>>
    /\ \A i \in 1..Len(v.items) : v.items[i].t # "dict"

\* lines 188-189
Stripped(value) == IF value.t = "str" THEN PyStr(Strip(value.s)) ELSE value

\* lines 190-200: one field of one record, v its value after line 189
Route(p, key, v) ==
    IF (v.t = "str" /\ v.s = <<>>) \/ v.t = "null" THEN p
    ELSE IF IsObjArray(v) THEN [p EXCEPT !.nested_objs = ODExtend(@, key, v.items)]
    ELSE IF IsPrimArray(v) THEN [p EXCEPT !.nested_prims = ODExtend(@, key, v.items)]
    ELSE [p EXCEPT !.cols = ODExtend(@, key, <<v>>)]

\* lines 187-200
RECURSIVE RouteRow(_, _)
RouteRow(p, row) ==
    IF row = <<>> THEN p
    ELSE RouteRow(Route(p, row[1][1], Stripped(row[1][2])), Tail(row))

\* lines 186-200
RECURSIVE RouteRows(_, _)
RouteRows(p, rows) ==
    IF rows = <<>> THEN p ELSE RouteRows(RouteRow(p, rows[1]), Tail(rows))

\* lines 183-200
Partition(rows) ==
    RouteRows([cols |-> <<>>, nested_objs |-> <<>>, nested_prims |-> <<>>], rows)

----------------------------------------------------------------------------
(* process_table, the column definitions: lines 201-261 *)

\* sorted(seq, key), less[i][j] telling that the key of seq[i] is less than
\* the key of seq[j]: a stable sort.  The place of seq[i] is one more than the
\* count of the elements that go before it.
SortBy(seq, less) ==
    [r \in 1..Len(seq) |->
        seq[CHOOSE i \in 1..Len(seq) :
                Cardinality({j \in 1..Len(seq) :
                                \/ less[j][i]
                                \/ j < i /\ ~less[i][j]}) = r - 1]]

\* sorted(names), for strings
Sorted(names) ==
    SortBy(names, [i \in 1..Len(names) |->
                     [j \in 1..Len(names) |-> StrLess(names[i], names[j])]])

\* line 205: re.sub(r"\d+$", "", c)
RECURSIVE GroupBase(_)
GroupBase(c) ==
    IF c # <<>> /\ IsDigit(c[Len(c)]) THEN GroupBase(SubSeq(c, 1, Len(c) - 1)) ELSE c

\* lines 203-206
RECURSIVE GroupsOf(_, _)
GroupsOf(g, keys) ==
    IF keys = <<>> THEN g
    ELSE GroupsOf(ODExtend(g, GroupBase(keys[1]), <<keys[1]>>), Tail(keys))

\* line 202
NullStatus(cols, total_rows, c) == Len(ODGet(cols, c)) < total_rows

\* line 209: not group_has_non_null(base)
AllNull(cols, total_rows, members) ==
    \A i \in 1..Len(members) : NullStatus(cols, total_rows, members[i])

\* line 212: the key of a base
BaseKey(cols, total_rows, groups, b) ==
    [allnull |-> AllNull(cols, total_rows, ODGet(groups, b)), low |-> Lower(b)]

\* the order of the tuples (bool, str)
KeyLess(x, y) ==
    \/ ~x.allnull /\ y.allnull
    \/ x.allnull = y.allnull /\ StrLess(x.low, y.low)

\* lines 210-213
OrderedBases(cols, total_rows, groups) ==
    SortBy(ODKeys(groups),
           [i \in 1..Len(groups) |->
              [j \in 1..Len(groups) |->
                 KeyLess(BaseKey(cols, total_rows, groups, groups[i].k),
                         BaseKey(cols, total_rows, groups, groups[j].k))]])

\* lines 235-236: the columns in the order of the two nested loops
ColumnsOfBases(groups, bases) ==
    Flatten([i \in 1..Len(bases) |-> Sorted(ODGet(groups, bases[i]))])

ColumnsOfGroups(cols, total_rows, groups) ==
    ColumnsOfBases(groups, OrderedBases(cols, total_rows, groups))

GroupedColumns(cols, total_rows) ==
    ColumnsOfGroups(cols, total_rows, GroupsOf(<<>>, ODKeys(cols)))

\* The rename map is [none, pairs]: None, or the dict of its <<src, dst>> pairs.
NoMap == [none |-> TRUE, pairs |-> <<>>]
MapOf(ps) == [none |-> FALSE, pairs |-> ps]

\* lines 221-223, 229-231 and 241-243
Cased(out) == EscapeQuotes(IF pascal THEN to_pascal(out) ELSE out)

\* lines 220-223 and 240-243
OutName(c) == Cased(IF rename_map.none THEN c ELSE RowGet(rename_map.pairs, c, c))

\* line 215
PkCol == IF pk_source # <<>> THEN pk_source ELSE <<"I", "D">>

\* A column definition, the string '    "<name>" <sql> <tail>', is kept as its
\* parts; src, the field it was computed from, and role, the line that built
\* it ("pk" 224, "fk" 232, "col" 247), are no part of the string.
ColDef(nm, ty, tl, from, rl) ==
    [name |-> nm, sql |-> ty, tail |-> tl, src |-> from, role |-> rl]

PrimaryKeyWords == <<Word("PRIMARY"), Word("KEY")>>
NotNullWords == <<Word("NOT"), Word("NULL")>>

Quoted(s) == <<"\"">> \o s \o <<"\"">>

\* lines 218-224
PkDefs(cols) ==
    IF ODHas(cols, PkCol)
    THEN <<ColDef(OutName(PkCol), infer_sql_type(ODGet(cols, PkCol), nerd, cushion_arg),
                  PrimaryKeyWords, PkCol, "pk")>>
    ELSE <<>>

\* lines 226-232, when rename_map is a dict
FkDefs(parent_fk) ==
    IF parent_fk.some
    THEN <<ColDef(Cased(RowGet(rename_map.pairs, parent_fk.name, parent_fk.name)),
                  parent_fk.type, NotNullWords, parent_fk.name, "fk")>>
    ELSE <<>>

\* lines 237-238
IsKeyColumn(c, parent_fk) == c = PkCol \/ (parent_fk.some /\ c = parent_fk.name)

\* lines 239-247
OtherDef(cols, total_rows, c) ==
    ColDef(OutName(c), infer_sql_type(ODGet(cols, c), nerd, cushion_arg),
           IF NullStatus(cols, total_rows, c) THEN <<>> ELSE NotNullWords, c, "col")

DefsOf(cols, total_rows, kept) ==
    [i \in 1..Len(kept) |-> OtherDef(cols, total_rows, kept[i])]

\* lines 234-247
OtherDefs(cols, total_rows, parent_fk) ==
    DefsOf(cols, total_rows,
           SelectSeq(GroupedColumns(cols, total_rows),
                     LAMBDA c : ~IsKeyColumn(c, parent_fk)))

\* The least number of a non-empty set of numbers
Least(S) == CHOOSE i \in S : \A j \in S : i <= j

\* lines 258-261: the first definition that re.search(rf"\"{c}\"", d) finds;
\* only the quoted name of a definition holds quotes
Hits(other_defs, c) ==
    {i \in 1..Len(other_defs) : Contains(Quoted(other_defs[i].name), Quoted(c))}

FirstOf(other_defs, hits) == IF hits = {} THEN <<>> ELSE <<other_defs[Least(hits)]>>

FirstMatch(other_defs, c) == FirstOf(other_defs, Hits(other_defs, c))

\* lines 254-261: one iteration, c the key after line 255
ProbeDefs(other_defs, parent_fk, c) ==
    IF IsKeyColumn(c, parent_fk) THEN <<>> ELSE FirstMatch(other_defs, c)

\* lines 253-261
InsertionOrderDefs(cols, other_defs, parent_fk) ==
    Flatten([i \in 1..Len(cols) |->
                ProbeDefs(other_defs, parent_fk,
                          IF pascal THEN to_pascal(cols[i].k) ELSE cols[i].k)])

AnyRaised(defs) == \E i \in 1..Len(defs) : IsRaised(defs[i].sql)

\* ColDefs with lines 218-224 and lines 226-232 exchanged: the foreign key
\* appended before the primary key
ColDefsPutFkFirst(cols, parent_fk, pk, fk, other_defs) ==
    IF AnyRaised(pk \o other_defs) THEN [raised |-> TRUE, col_defs |-> <<>>]
    ELSE [raised |-> FALSE,
          col_defs |-> fk \o pk \o (IF sort THEN other_defs
                                    ELSE InsertionOrderDefs(cols, other_defs, parent_fk))]

\* lines 216-261, with the definitions of lines 218-247
ColDefs(cols, parent_fk, pk, fk, other_defs) ==
    \* lines 219, 239: infer_sql_type raised
    IF AnyRaised(pk \o other_defs) THEN [raised |-> TRUE, col_defs |-> <<>>]
    ELSE [raised |-> FALSE,
          col_defs |-> pk \o fk \o (IF sort THEN other_defs
                                    ELSE InsertionOrderDefs(cols, other_defs, parent_fk))]

\* lines 214-261: [raised, col_defs]
BuildColDefs(cols, total_rows, parent_fk) ==
    \* line 228: None.get raises AttributeError
    IF parent_fk.some /\ rename_map.none THEN [raised |-> TRUE, col_defs |-> <<>>]
    ELSE ColDefs(cols, parent_fk, PkDefs(cols), FkDefs(parent_fk),
                 OtherDefs(cols, total_rows, parent_fk))

----------------------------------------------------------------------------
(* _get_primary_key_type: lines 161-165 *)

\* d.split(): column names in the model hold no white space, so the quoted
\* name is one word
SplitDef(d) == <<Word("NAME"), d.sql>> \o d.tail

\* line 163
MentionsIdPrimaryKey(d) ==
    /\ Contains(Quoted(d.name), Quoted(<<"i", "d">>))
    /\ d.tail = PrimaryKeyWords

\* line 164, or line 165
TypeOfFirst(col_defs, hits) ==
    IF hits = {} THEN Word("INTEGER") ELSE SplitDef(col_defs[Least(hits)])[3]

_get_primary_key_type(col_defs) ==
    TypeOfFirst(col_defs, {i \in 1..Len(col_defs) : MentionsIdPrimaryKey(col_defs[i])})

----------------------------------------------------------------------------
(* process_table, the recursion: lines 262-302.  A call of process_table is
   a frame of the stack; its position is phase ("body": lines 180-262 are to
   run, "children": the loops of lines 264-301 are running), oi and pi are
   the next entries of nested_objs and nested_prims.  via and field tell the
   loop and the field the call was made for. *)

\* parent_fk: None, or the tuple (name, type)
NoFk == [some |-> FALSE, name |-> <<>>, type |-> Word("NONE")]
Fk(nm, ty) == [some |-> TRUE, name |-> nm, type |-> ty]

Frame(recs, nm, pfk, how, fld) ==
    [records |-> recs, table_name |-> nm, parent_fk |-> pfk, phase |-> "body",
     col_defs |-> <<>>, cols |-> <<>>, nested_objs |-> <<>>, nested_prims |-> <<>>,
     oi |-> 1, pi |-> 1, via |-> how, field |-> fld]

Top == stack[Len(stack)]
SetTop(f) == [stack EXCEPT ![Len(stack)] = f]

\* lines 265 and 283
SubName(table, field) == table \o <<"_">> \o field
\* lines 266 and 284
FkCol(table) == table \o <<"_", "i", "d">>

\* The table name the caller passes
RootName == <<"t">>

\* NextChild with the loops of lines 264-281 and 282-301 exchanged
NextChildTakesPrimsFirst(f) ==
    IF f.pi <= Len(f.nested_prims) THEN "prim"
    ELSE IF f.oi <= Len(f.nested_objs) THEN "obj"
    ELSE "none"

\* lines 264 and 282: the loop that makes the next call of frame f
NextChild(f) ==
    IF f.oi <= Len(f.nested_objs) THEN "obj"
    ELSE IF f.pi <= Len(f.nested_prims) THEN "prim"
    ELSE "none"

\* The dicts of nested_objs[field] are the dicts inside the records: what
\* line 269 and the calls below it write into them shows in the records.
\* The number of children that row holds for field
Taken(row, field) ==
    IF IsObjArray(Stripped(RowGet(row, field, PyNone)))
    THEN Len(RowGet(row, field, PyNone).items)
    ELSE 0

WriteRow(row, field, children, n) ==
    IF n = 0 THEN row ELSE RowSet(row, field, PyList(SubSeq(children, 1, n)))

RECURSIVE WriteBack(_, _, _)
WriteRest(rows, field, children, n) ==
    <<WriteRow(rows[1], field, children, n)>>
        \o WriteBack(Tail(rows), field, SubSeq(children, n + 1, Len(children)))

WriteBack(rows, field, children) ==
    IF rows = <<>> THEN <<>>
    ELSE WriteRest(rows, field, children, Taken(rows[1], field))

\* line 269: child[fk_col] = id, for every child
Injected(children, fk_col, id) ==
    [i \in 1..Len(children) |-> PyDict(RowSet(children[i].items, fk_col, id))]

RowsOf(children) == [i \in 1..Len(children) |-> children[i].items]
DictsOf(rows) == [i \in 1..Len(rows) |-> PyDict(rows[i])]

\* line 288: iter(x) raises TypeError unless x is a list, a str or a dict
Iterable(x) == x.t \in {"list", "str", "dict"}
Elements(x) ==
    CASE x.t = "list" -> x.items
      [] x.t = "str" -> [i \in 1..Len(x.s) |-> PyStr(<<x.s[i]>>)]
      [] x.t = "dict" -> [i \in 1..Len(x.items) |-> PyStr(x.items[i][1])]
      [] OTHER -> <<>>

\* lines 288-289: the records of one row, elems what row.get(field, []) holds
RecordsOfElements(row, fk_col, elems) ==
    [i \in 1..Len(elems) |->
        << <<fk_col, RowGet(row, <<"I", "D">>, PyNone)>>, <<<<"v", "a", "l", "u", "e">>, elems[i]>> >>]

\* lines 286-289
PrimRecords(rows, field, fk_col) ==
    Flatten([r \in 1..Len(rows) |->
                RecordsOfElements(rows[r], fk_col,
                                  Elements(RowGet(rows[r], field, PyList(<<>>))))])

\* line 288 raises for some row
PrimRaises(rows, field) ==
    \E r \in 1..Len(rows) : ~Iterable(RowGet(rows[r], field, PyList(<<>>)))

Idle == UNCHANGED <<values, result, ipc, data, pascal, nerd, rename_map, sort,
                    pk_source, cushion_arg>>

\* The caller's call: process_table(data, name, rename_map = ..., ...)
Call ==
    /\ status = "start"
    /\ status' = "running"
    /\ stack' = <<Frame(data, RootName, NoFk, "root", <<>>)>>
    /\ UNCHANGED schemas
    /\ Idle

\* lines 180-262 of frame f, part its partition and built its definitions
BodyEnds(f, part, built) ==
    IF built.raised
    THEN /\ status' = "raised"
         /\ UNCHANGED <<stack, schemas>>
    ELSE /\ schemas' = ODSet(schemas, f.table_name, built.col_defs)
         /\ stack' = SetTop([f EXCEPT !.phase = "children",
                                      !.col_defs = built.col_defs,
                                      !.cols = part.cols,
                                      !.nested_objs = part.nested_objs,
                                      !.nested_prims = part.nested_prims])
         /\ UNCHANGED status

BodyOf(f, part) ==
    BodyEnds(f, part, BuildColDefs(part.cols, Len(f.records), f.parent_fk))

Body ==
    /\ status = "running"
    /\ Top.phase = "body"
    /\ BodyOf(Top, Partition(Top.records))
    /\ Idle

\* lines 264-281: one iteration for frame f; children after line 269
CallObj(f, field, children) ==
    /\ stack' = Append(SetTop([f EXCEPT !.oi = @ + 1,
                                        !.records = WriteBack(@, field, children)]),
                       Frame(RowsOf(children), SubName(f.table_name, field),
                             Fk(FkCol(f.table_name), _get_primary_key_type(f.col_defs)),
                             "obj", field))
    /\ UNCHANGED <<schemas, status>>

RecurseObjOf(f, entry) ==
    CallObj(f, entry.k,
            Injected(entry.vals, FkCol(f.table_name), RowGet(f.records[1], <<"I", "D">>, PyNone)))

RecurseObj ==
    /\ status = "running"
    /\ Top.phase = "children"
    /\ NextChild(Top) = "obj"
    /\ RecurseObjOf(Top, Top.nested_objs[Top.oi])
    /\ Idle

\* lines 282-301: one iteration for frame f
RecursePrimOf(f, field) ==
    IF PrimRaises(f.records, field)
    THEN /\ status' = "raised"
         /\ UNCHANGED <<stack, schemas>>
    ELSE /\ stack' = Append(SetTop([f EXCEPT !.pi = @ + 1]),
                            Frame(PrimRecords(f.records, field, FkCol(f.table_name)),
                                  SubName(f.table_name, field),
                                  Fk(FkCol(f.table_name),
                                     _get_primary_key_type(f.col_defs)),
                                  "prim", field))
         /\ UNCHANGED <<schemas, status>>

RecursePrim ==
    /\ status = "running"
    /\ Top.phase = "children"
    /\ NextChild(Top) = "prim"
    /\ RecursePrimOf(Top, Top.nested_prims[Top.pi].k)
    /\ Idle

\* line 302 of frame f, whose caller is frame c
ReturnTo(c, f) ==
    IF f.via = "obj"
    THEN [c EXCEPT !.records = WriteBack(@, f.field, DictsOf(f.records))]
    ELSE c

ReturnOf(f) ==
    IF Len(stack) = 1
    THEN /\ stack' = <<>>
         /\ status' = "returned"
    ELSE /\ stack' = Append(SubSeq(stack, 1, Len(stack) - 2),
                            ReturnTo(stack[Len(stack) - 1], f))
         /\ UNCHANGED status

Return ==
    /\ status = "running"
    /\ Top.phase = "children"
    /\ NextChild(Top) = "none"
    /\ ReturnOf(Top)
    /\ UNCHANGED schemas
    /\ Idle

----------------------------------------------------------------------------
(* The inputs *)

\* The values of a column
SampleValues ==
    << PyInt(7), PyInt(123456), PyBool(TRUE),
       PyFloat(<<"1", ".", "5">>), PyFloat(<<"0", ".", "0", "5">>), PyFloat(<<"1", "e", "-", "0", "7">>), PyFloat(<<"n", "a", "n">>),
       PyStr(<<"1", "2">>), PyStr(<<"1", ".", "5", "0">>), PyStr(<<".", "0", "2", "5">>), PyStr(<<"y", "e", "s">>),
       PyStr(<<"1", "/", "2">>), PyStr(<<"1", ":", "3", "0">>), PyStr(<<"2", "0", "2", "4", "-", "0", "1", "-", "0", "5">>),
       PyStr(<<"2", "0", "2", "4", "-", "0", "2", "-", "0", "1", " ", "1", "3", ":", "3", "0">>),
       PyStr(<<"a", "b", "c">>), PyStr(<<"a", "b", "c", "d", "e">>), PyStr(<<" ", "a", "b", " ">>), PyStr(<<" ">>),
       PyList(<<>>) >>

SampleCushions == {<<"1", "0", "%">>, <<"5", "0", "%">>, <<"5">>, <<"-", "3">>, <<"z", "z">>}

\* The records of a batch
SampleRows ==
    << \* {"ID": 1, "Name": "Al", "tags": ["x", "yy"],
       \*  "orders": [{"ID": 5, "sku": "A", "lines": [{"q": 1}]}]}
       << <<<<"I", "D">>, PyInt(1)>>, <<<<"N", "a", "m", "e">>, PyStr(<<"A", "l">>)>>,
          <<<<"t", "a", "g", "s">>, PyList(<<PyStr(<<"x">>), PyStr(<<"y", "y">>)>>)>>,
          <<<<"o", "r", "d", "e", "r", "s">>,
            PyList(<<PyDict(<< <<<<"I", "D">>, PyInt(5)>>, <<<<"s", "k", "u">>, PyStr(<<"A">>)>>,
                               <<<<"l", "i", "n", "e", "s">>,
                                 PyList(<<PyDict(<< <<<<"q">>, PyInt(1)>> >>)>>)>> >>)>>)>> >>,
       \* {"ID": "abc", "orders": [{"sku": "A"}, {"sku": "BB"}], "Name": " Bo "}
       << <<<<"I", "D">>, PyStr(<<"a", "b", "c">>)>>,
          <<<<"o", "r", "d", "e", "r", "s">>, PyList(<<PyDict(<< <<<<"s", "k", "u">>, PyStr(<<"A">>)>> >>),
                                PyDict(<< <<<<"s", "k", "u">>, PyStr(<<"B", "B">>)>> >>)>>)>>,
          <<<<"N", "a", "m", "e">>, PyStr(<<" ", "B", "o", " ">>)>> >>,
       \* {"id": "k1", "first_name": "x", "firstName": 2, "tags": "ab"}
       << <<<<"i", "d">>, PyStr(<<"k", "1">>)>>, <<<<"f", "i", "r", "s", "t", "_", "n", "a", "m", "e">>, PyStr(<<"x">>)>>,
          <<<<"f", "i", "r", "s", "t", "N", "a", "m", "e">>, PyInt(2)>>, <<<<"t", "a", "g", "s">>, PyStr(<<"a", "b">>)>> >>,
       \* {"ID": 2, "tags": null, "Name": ""}
       << <<<<"I", "D">>, PyInt(2)>>, <<<<"t", "a", "g", "s">>, PyNone>>, <<<<"N", "a", "m", "e">>, PyStr(<<>>)>> >>,
       \* {"ID": 3, "tags": 5, "Age1": 30, "Age": "1.5"}
       << <<<<"I", "D">>, PyInt(3)>>, <<<<"t", "a", "g", "s">>, PyInt(5)>>, <<<<"A", "g", "e", "1">>, PyInt(30)>>,
          <<<<"A", "g", "e">>, PyStr(<<"1", ".", "5">>)>> >>,
       \* {"Name": "Cy", "notes": []}
       << <<<<"N", "a", "m", "e">>, PyStr(<<"C", "y">>)>>, <<<<"n", "o", "t", "e", "s">>, PyList(<<>>)>> >>,
       \* {"ID": 4, "tags": ["z"]}
       << <<<<"I", "D">>, PyInt(4)>>, <<<<"t", "a", "g", "s">>, PyList(<<PyStr(<<"z">>)>>)>> >> >>

\* rename_map: None (the default), {} and {"Name": "FullName", "ID": "id"}
SampleMaps ==
    {NoMap, MapOf(<<>>), MapOf(<< <<<<"N", "a", "m", "e">>, <<"F", "u", "l", "l", "N", "a", "m", "e">>>>, <<<<"I", "D">>, <<"i", "d">>>> >>)}

\* pk_source: None (the default) and "id"
SamplePkSources == {<<>>, <<"i", "d">>}

\* The non-empty sequences of at most len numbers of 1..n
SeqsUpTo(n, len) == UNION {[1..k -> 1..n] : k \in 1..len}

Pick(samples, ix) == [i \in 1..Len(ix) |-> samples[ix[i]]]

----------------------------------------------------------------------------
(* The specification of process_table; the VARCHAR sizing that nerd and
   cushion_arg choose is exercised by the specification of infer_sql_type *)

Init ==
    /\ \E ix \in SeqsUpTo(Len(SampleRows), MaxRows) : data = Pick(SampleRows, ix)
    /\ stack = <<>>
    /\ schemas = <<>>
    /\ status = "start"
    /\ pascal \in BOOLEAN
    /\ nerd = FALSE
    /\ sort \in BOOLEAN
    /\ rename_map \in SampleMaps
    /\ pk_source \in SamplePkSources
    /\ cushion_arg = <<"1", "0", "%">>
    /\ values = <<>>
    /\ result = Word("NONE")
    /\ ipc = "idle"

Next == Call \/ Body \/ RecurseObj \/ RecursePrim \/ Return

Spec == Init /\ [][Next]_vars

(* The specification of infer_sql_type *)

InitInfer ==
    /\ \E ix \in SeqsUpTo(Len(SampleValues), MaxVals) : values = Pick(SampleValues, ix)
    /\ nerd \in BOOLEAN
    /\ cushion_arg \in SampleCushions
    /\ result = Word("NONE")
    /\ ipc = "call"
    /\ data = <<>>
    /\ stack = <<>>
    /\ schemas = <<>>
    /\ status = "idle"
    /\ pascal = FALSE
    /\ sort = FALSE
    /\ rename_map = NoMap
    /\ pk_source = <<>>

\* infer_sql_type(values, nerd, cushion_arg)
InferCall ==
    /\ ipc = "call"
    /\ result' = infer_sql_type(values, nerd, cushion_arg)
    /\ ipc' = "done"
    /\ UNCHANGED <<values, data, stack, schemas, status, pascal, nerd, rename_map,
                   sort, pk_source, cushion_arg>>

NextInfer == InferCall

SpecInfer == InitInfer /\ [][NextInfer]_vars

----------------------------------------------------------------------------
(* Properties of process_table, under Spec *)

\* The types of the columns of a table that line 224 and line 232 built
PkTypes(defs) == SelectSeq(defs, LAMBDA d : d.role = "pk")
FkTypes(defs) == SelectSeq(defs, LAMBDA d : d.role = "fk")

\* The type the child's foreign key is to carry: that of the parent's
\* primary key, INTEGER when the parent has none
ParentKeyType(defs) ==
    IF PkTypes(defs) = <<>> THEN Word("INTEGER") ELSE PkTypes(defs)[1].sql

\* C1: the foreign-key column of every child table carries the SQL type
\* inferred for the primary-key column of its parent table, and INTEGER only
\* when the parent table has no primary-key column.
FkTypeIsParentPkType ==
    \A i \in 2..Len(stack) :
        stack[i].phase = "children"
            => /\ Len(FkTypes(stack[i].col_defs)) = 1
               /\ FkTypes(stack[i].col_defs)[1].sql = ParentKeyType(stack[i - 1].col_defs)

\* C2: process_table never raises to its caller.
NeverRaises == status # "raised"

\* The positions of the PRIMARY KEY columns and of the inherited foreign key
PkPositions(defs) == {i \in 1..Len(defs) : defs[i].tail = PrimaryKeyWords}
FkPositions(defs) == {i \in 1..Len(defs) : defs[i].role = "fk"}

\* C3, as claimed: in every recorded table at most one column is PRIMARY KEY
\* and it is the first; at most one column is the inherited foreign key, and
\* in a table that is a recursion target it is the second column.
PkFirstFkSecond ==
    \A i \in 1..Len(schemas) :
        /\ Cardinality(PkPositions(schemas[i].vals)) <= 1
        /\ PkPositions(schemas[i].vals) \subseteq {1}
        /\ Cardinality(FkPositions(schemas[i].vals)) <= 1
        /\ schemas[i].k # RootName => FkPositions(schemas[i].vals) = {2}

\* C3, amended: in every recorded table at most one column is PRIMARY KEY and
\* it is the first; at most one column is the inherited foreign key, and in a
\* table that is a recursion target it comes right after the primary key when
\* the table has one and is the first column when it has none.
PkFirstFkNext ==
    \A i \in 1..Len(schemas) :
        /\ Cardinality(PkPositions(schemas[i].vals)) <= 1
        /\ PkPositions(schemas[i].vals) \subseteq {1}
        /\ Cardinality(FkPositions(schemas[i].vals)) <= 1
        /\ schemas[i].k # RootName
            => FkPositions(schemas[i].vals)
                 = {Cardinality(PkPositions(schemas[i].vals)) + 1}
        /\ schemas[i].k = RootName => FkPositions(schemas[i].vals) = {}

\* C3, the case: a child table with a primary key and the foreign key second,
\* and a child table without primary key whose first column is the foreign key
PkThenFkAndFkAlone ==
    /\ \E i \in 1..Len(schemas) :
          PkPositions(schemas[i].vals) = {1} /\ FkPositions(schemas[i].vals) = {2}
    /\ \E i \in 1..Len(schemas) :
          /\ PkPositions(schemas[i].vals) = {}
          /\ FkPositions(schemas[i].vals) = {1}
          /\ Len(schemas[i].vals) >= 2

\* The fields of the columns that line 247 built, in the order of the table
OtherSources(defs) ==
    [i \in 1..Len(SelectSeq(defs, LAMBDA d : d.role = "col")) |->
        SelectSeq(defs, LAMBDA d : d.role = "col")[i].src]

\* C4: in the default ordering mode every scalar column other than the
\* primary key and the inherited foreign key is emitted exactly once, in the
\* order in which the field names were first encountered, for every rename
\* map and every setting of pascal.
DefaultOrderEmitsEachColumnOnce ==
    \A i \in 1..Len(stack) :
        (~sort /\ stack[i].phase = "children")
            => OtherSources(stack[i].col_defs)
                 = SelectSeq(ODKeys(stack[i].cols),
                             LAMBDA c : ~IsKeyColumn(c, stack[i].parent_fk))

\* The fields that hold an array of objects or of primitives, in the order of
\* their first such value
RECURSIVE FirstOccurrences(_, _)
FirstOccurrences(seen, ks) ==
    IF ks = <<>> THEN seen
    ELSE FirstOccurrences(IF IsIn(seen, ks[1]) THEN seen ELSE Append(seen, ks[1]),
                          Tail(ks))

ArrayPairs(rows) ==
    SelectSeq(Flatten(rows), LAMBDA p : IsObjArray(p[2]) \/ IsPrimArray(p[2]))

ArrayFields(rows) ==
    FirstOccurrences(<<>>, [i \in 1..Len(ArrayPairs(rows)) |-> ArrayPairs(rows)[i][1]])

\* The records of the child table of an array of primitives
ValueRows(elems) == [i \in 1..Len(elems) |-> << <<"value", elems[i]>> >>]

\* The tables of the tree of rows in pre-order; the children of a table are
\* taken object arrays first, then primitive arrays (objsFirst), or in the
\* order of ArrayFields
RECURSIVE PreOrder(_, _, _)
ChildOrder(rows, part, objsFirst) ==
    IF objsFirst THEN ODKeys(part.nested_objs) \o ODKeys(part.nested_prims)
    ELSE ArrayFields(rows)

ChildRows(part, objsFirst, field, nth) ==
    IF ODHas(part.nested_objs, field)
       /\ (~objsFirst \/ nth <= Len(part.nested_objs))
    THEN RowsOf(ODGet(part.nested_objs, field))
    ELSE ValueRows(ODGet(part.nested_prims, field))

PreOrderOf(name, part, objsFirst, fields) ==
    <<name>> \o Flatten([i \in 1..Len(fields) |->
                            PreOrder(ChildRows(part, objsFirst, fields[i], i),
                                     name \o <<"_">> \o fields[i], objsFirst)])

PreOrder(rows, name, objsFirst) ==
    PreOrderOf(name, Partition(rows), objsFirst,
               ChildOrder(rows, Partition(rows), objsFirst))

PrimChildBuiltFromBucketOnly ==
    \A i \in 2..Len(stack) :
        stack[i].via = "prim"
            => Len(stack[i].records)
                 = Len(ODGet(stack[i - 1].nested_prims, stack[i].field))

----------------------------------------------------------------------------
(* Properties of infer_sql_type, under SpecInfer *)

\* The greatest number of a sequence of numbers, 0 of the empty one
RECURSIVE Greatest(_)
Greatest(ns) == IF ns = <<>> THEN 0 ELSE Max(ns[1], Greatest(Tail(ns)))

\* What a value is, read from its text
TextOf(v) == IF v.t = "str" THEN Strip(v.s) ELSE v.s
IsDateOrBoolValue(v) ==
    \/ v.t = "bool"
    \/ /\ v.t = "str"
       /\ TextOf(v) # <<>>
       /\ ~IsIntString(TextOf(v))
       /\ ~IsFloatString(TextOf(v))
       /\ (IsBoolString(TextOf(v)) \/ parse_date(TextOf(v)))
IsFloatLike(v) == v.t = "float" \/ (v.t = "str" /\ IsFloatString(TextOf(v)))
IsIntLike(v) == v.t = "int" \/ (v.t = "str" /\ IsIntString(TextOf(v)))
IsPlainString(v) ==
    /\ v.t = "str"
    /\ TextOf(v) # <<>>
    /\ ~IsIntString(TextOf(v))
    /\ ~IsFloatString(TextOf(v))
    /\ ~IsBoolString(TextOf(v))
    /\ ~parse_date(TextOf(v))

\* The length of a value as a string: the trimmed length of a str, the
\* length of the text of a list or dict; numbers and booleans count nothing
ObservedLength(v) ==
    IF v.t = "str" THEN Len(Strip(v.s))
    ELSE IF v.t \in {"int", "bool", "float"} THEN 0
    ELSE StrLen(v)

\* C5: with nerd sizing disabled, the length of a VARCHAR column is the
\* greatest trimmed length among its values, also when the column is VARCHAR
\* because its values mix classifications, so that every value fits.
VarcharLengthIsLongestValue ==
    (ipc = "done" /\ ~nerd /\ result.kind = "VARCHAR")
        => result.a = Max(1, Greatest([i \in 1..Len(values) |-> ObservedLength(values[i])]))

\* The column is a string column whose values share the trimmed length L >= 1
SameLengthStrings(L) ==
    /\ values # <<>>
    /\ \A i \in 1..Len(values) : IsPlainString(values[i]) /\ Len(TextOf(values[i])) = L

\* The least multiple of 2^max(floor(log2 L) - 1, 0) that is at least L
PowersOfTwo == [e \in 0..6 |-> 2 ^ e]
FloorLog2(L) == CHOOSE e \in 0..5 : PowersOfTwo[e] <= L /\ L < PowersOfTwo[e + 1]
BlockOf(L) == IF FloorLog2(L) = 0 THEN 1 ELSE PowersOfTwo[FloorLog2(L) - 1]
RoundedLength(L) == CHOOSE n \in L..(2 * L) :
                        /\ n % BlockOf(L) = 0
                        /\ \A m \in L..(n - 1) : m % BlockOf(L) # 0

Mantissa(x) == Before(Lower(Unsigned(x)), "e")
PowerOfTen(x) ==
    IF IsIn(Lower(x), "e") THEN SignedValue(After(Lower(Unsigned(x)), "e")) ELSE 0
MantissaDigits(x) == SelectSeq(Mantissa(x), IsDigit)
\* a text without digits (nan, inf) is no number: it counts no digit
SignificantDigits(x) ==
    IF MantissaDigits(x) = <<>> THEN 0 ELSE Len(StripLeadingZeros(MantissaDigits(x)))
FractionDigits(x) ==
    IF MantissaDigits(x) = <<>> THEN 0
    ELSE Max(Len(After(Mantissa(x), ".")) - PowerOfTen(x), 0)
IsZero(x) == \A i \in 1..Len(MantissaDigits(x)) : MantissaDigits(x)[i] = "0"
IntegerDigits(x) ==
    IF IsZero(x) THEN 0
    ELSE Max(SignificantDigits(x) - Len(After(Mantissa(x), ".")) + PowerOfTen(x), 0)

FloatLikes == SelectSeq(values, IsFloatLike)

\* C9: a column with a float-like value and no date, datetime or boolean
\* value is DECIMAL(p,s), p the greatest count of significant digits of its
\* float-like values and at least 1, s the greatest count of their digits
\* after the point.
FloatColumnIsDecimal ==
    (/\ ipc = "done"
     /\ FloatLikes # <<>>
     /\ \A i \in 1..Len(values) : ~IsDateOrBoolValue(values[i]))
        => result = DecimalType(
                        Max(1, Greatest([i \in 1..Len(FloatLikes) |->
                                            SignificantDigits(TextOf(FloatLikes[i]))])),
                        Greatest([i \in 1..Len(FloatLikes) |->
                                     FractionDigits(TextOf(FloatLikes[i]))]))

\* The number v fits DECIMAL(p,sc)
Fits(v, p, sc) ==
    IF v.t = "int" THEN NumDigits(IF v.n < 0 THEN -v.n ELSE v.n) <= p - sc
    ELSE /\ FractionDigits(TextOf(v)) <= sc
         /\ IntegerDigits(TextOf(v)) <= p - sc

\* C10: a column typed DECIMAL(p,s) has p >= s, and every number of the
\* column, the integer-like ones included, has at most s digits after the
\* point and at most p - s digits before it.
DecimalHoldsEveryNumber ==
    (ipc = "done" /\ result.kind = "DECIMAL")
        => /\ result.a >= result.b
           /\ \A i \in 1..Len(values) :
                (IsIntLike(values[i]) \/ IsFloatLike(values[i]))
                    => Fits(values[i], result.a, result.b)

====
